---- MODULE Spec2Model ----
(***************************************************************************)
(* Group-aware deduplicating loader of cifparse                            *)
(* (src/cifparse/functions/dedup.py, src/cifparse/records/table_base.py).  *)
(*                                                                         *)
(* Python strings are sequences of one-character strings, so that slicing, *)
(* `in`, endswith, replace and split are computed, not assumed.  A row is  *)
(* the tuple of its values in the order of the table's columns; the store  *)
(* is the bag of the rows of the one table a load works on.                *)
(***************************************************************************)
EXTENDS Integers, Sequences, FiniteSets, Bags, TLC

VARIABLES schema, store, pc, rows, groups, issued, added, calls, result, log

vars == <<schema, store, pc, rows, groups, issued, added, calls, result, log>>

\* Largest number of rows handed to one load call.
MaxBatch == 3

\* Largest number of rows of a restrictive-airspace table in one load call.
MaxRestrictiveBatch == 2

\* Longest field list handed to fields_before.
MaxFields == 4

\* Longest list of leading fields of a record shape whose statements are
\* derived.
MaxLeading == 2

\* Largest number of indexes of a table that is introspected.
MaxIndexes == 3

\* Python's None / SQL NULL: a value that is no character sequence.
None == <<"None">>

---------------------------------------------------------------------------
\* String literals of the source.

s_seq_no == <<"s", "e", "q", "_", "n", "o">>
s_id == <<"_", "i", "d">>
s_name == <<"_", "n", "a", "m", "e">>
s_type == <<"_", "t", "y", "p", "e">>
s_mult_code == <<"m", "u", "l", "t", "_", "c", "o", "d", "e">>
s_restrictive == <<"r", "e", "s", "t", "r", "i", "c", "t", "i", "v", "e">>
s_USA == <<"U", "S", "A">>
s_HIH == <<"H", "I", "H">>
s_HIGH == <<"H", "I", "G", "H">>
s_LOW == <<"L", "O", "W">>
s_sp_HIGH == <<" ", "H", "I", "G", "H">>
s_sp_LOW == <<" ", "L", "O", "W">>
s_NORTH == <<" ", "N", "O", "R", "T", "H">>
s_EAST == <<" ", "E", "A", "S", "T">>
s_WEST == <<" ", "W", "E", "S", "T">>
s_SOUTH == <<" ", "S", "O", "U", "T", "H">>

alphabetToPhoentic ==
       "A" :> <<"A", "L", "P", "H", "A">>
    @@ "B" :> <<"B", "R", "A", "V", "O">>
    @@ "C" :> <<"C", "H", "A", "R", "L", "I", "E">>
    @@ "D" :> <<"D", "E", "L", "T", "A">>
    @@ "E" :> <<"E", "C", "H", "O">>
    @@ "F" :> <<"F", "O", "X", "T", "R", "O", "T">>
    @@ "G" :> <<"G", "O", "L", "F">>
    @@ "H" :> <<"H", "O", "T", "E", "L">>
    @@ "I" :> <<"I", "N", "D", "I", "A">>
    @@ "J" :> <<"J", "U", "L", "I", "E", "T", "T">>
    @@ "K" :> <<"K", "I", "L", "O">>
    @@ "L" :> <<"L", "I", "M", "A">>
    @@ "M" :> <<"M", "I", "K", "E">>
    @@ "N" :> <<"N", "O", "V", "E", "M", "B", "E", "R">>
    @@ "O" :> <<"O", "S", "C", "A", "R">>
    @@ "P" :> <<"P", "A", "P", "A">>
    @@ "Q" :> <<"Q", "U", "E", "B", "E", "C">>
    @@ "R" :> <<"R", "O", "M", "E", "O">>
    @@ "S" :> <<"S", "I", "E", "R", "R", "A">>
    @@ "T" :> <<"T", "A", "N", "G", "O">>
    @@ "U" :> <<"U", "N", "I", "F", "O", "R", "M">>
    @@ "V" :> <<"V", "I", "C", "T", "O", "R">>
    @@ "W" :> <<"W", "H", "I", "S", "K", "E", "Y">>
    @@ "X" :> <<"X", "R", "A", "Y">>
    @@ "Y" :> <<"Y", "A", "N", "K", "E", "E">>
    @@ "Z" :> <<"Z", "U", "L", "U">>

---------------------------------------------------------------------------
\* Python string and list operations used by the source.

\* bool(v) of a string or None.
Truthy(v) == v # None /\ v # <<>>

\* sub in s
Contains(s, sub) ==
    \E i \in 1..(Len(s) - Len(sub) + 1) : SubSeq(s, i, i + Len(sub) - 1) = sub

\* s.endswith(suf)
EndsWith(s, suf) ==
    Len(s) >= Len(suf) /\ SubSeq(s, Len(s) - Len(suf) + 1, Len(s)) = suf

\* s[:-1]
DropLast(s) == SubSeq(s, 1, Len(s) - 1)

\* s[n:] for n >= 0
DropFirst(s, n) == SubSeq(s, n + 1, Len(s))

\* s.replace(old, new): every non-overlapping occurrence, left to right.
RECURSIVE Replace(_, _, _)
Replace(s, old, new) ==
    IF Len(s) < Len(old) THEN s
    ELSE IF SubSeq(s, 1, Len(old)) = old
         THEN new \o Replace(DropFirst(s, Len(old)), old, new)
         ELSE <<Head(s)>> \o Replace(Tail(s), old, new)

\* s.split(',')[0]
RECURSIVE FirstSegment(_)
FirstSegment(s) ==
    IF s = <<>> \/ Head(s) = "," THEN <<>>
    ELSE <<Head(s)>> \o FirstSegment(Tail(s))

\* list.index(x): position of the first occurrence, 0 when absent.
IndexOf(seq, x) ==
    IF \E i \in 1..Len(seq) : seq[i] = x
    THEN CHOOSE i \in 1..Len(seq) : seq[i] = x /\ \A j \in 1..(i - 1) : seq[j] # x
    ELSE 0

\* set(seq)
Range(seq) == {seq[i] : i \in 1..Len(seq)}

\* alphabetToPhoentic.get(ch, ch)
Phonetic(ch) ==
    IF ch \in DOMAIN alphabetToPhoentic THEN alphabetToPhoentic[ch] ELSE <<ch>>

---------------------------------------------------------------------------
\* fields_before with the slice one too long: fields[: index + 1].
fields_before_throughPivot(fields, pivot) ==
    IF IndexOf(fields, pivot) = 0 THEN fields
    ELSE SubSeq(fields, 1, IndexOf(fields, pivot))

\* fields_before(fields, pivot): the fields before the first pivot; all of
\* them when the pivot is absent.
fields_before(fields, pivot) ==
    IF IndexOf(fields, pivot) = 0 THEN fields
    ELSE SubSeq(fields, 1, IndexOf(fields, pivot) - 1)

---------------------------------------------------------------------------
\* Tables and rows.  A schema is a record shape as table_base.py sees it: a
\* table name, the ordered leading fields, the ordered trailing fields, and
\* the values each column takes in the rows that are loaded, with the largest
\* batch of such rows.

f_x == <<"x">>
f_z == <<"z">>
f_dow == <<"d", "o", "w">>
f_st == <<"s", "t">>
f_area == <<"a", "r", "e", "a">>
f_restrictive_id == <<"r", "e", "s", "t", "r", "i", "c", "t", "i", "v", "e", "_", "i", "d">>
f_restrictive_name == <<"r", "e", "s", "t", "r", "i", "c", "t", "i", "v", "e", "_", "n", "a", "m", "e">>
t_time_of_op == <<"t", "i", "m", "e", "_", "o", "f", "_", "o", "p">>
t_restrictive_primary == <<"r", "e", "s", "t", "r", "i", "c", "t", "i", "v", "e", "_", "p", "r", "i", "m", "a", "r", "y">>
f_environment_region == <<"e", "n", "v", "i", "r", "o", "n", "m", "e", "n", "t", "_", "r", "e", "g", "i", "o", "n">>
t_waypoints == <<"w", "a", "y", "p", "o", "i", "n", "t", "s">>

KSRENON == <<"K", "S", "R", "E", "N", "O", "N">>
RENO_NORTH == <<"R", "E", "N", "O", " ", "N", "O", "R", "T", "H">>
RENO_NV == <<"R", "E", "N", "O", ",", "N", "V">>
FALLON == <<"F", "A", "L", "L", "O", "N">>
PAC == <<"P", "A", "C">>
FOO == <<"F", "O", "O">>
RENO == <<"R", "E", "N", "O">>
LOWHIGH == <<"L", "O", "W", "H", "I", "G", "H">>
HIHLOW == <<"H", "I", "H", "L", "O", "W">>

\* The table of the demo at the end of dedup.py, as a record shape with
\* leading fields (x, z, seq_no) and one trailing field.
TimeOfOp ==
    [table    |-> t_time_of_op,
     leading  |-> <<f_x, f_z, s_seq_no>>,
     trailing |-> <<f_dow>>,
     doms     |-> <<{<<"A">>, None}, {<<"C">>}, {<<"1">>, <<"2">>}, {<<"2">>}>>,
     max      |-> MaxBatch]

\* A restrictive-airspace table: its name holds 'restrictive', its second
\* group field is the area, and it has an _id field, a mult_code field and
\* a _name field.
RestrictivePrimary ==
    [table    |-> t_restrictive_primary,
     leading  |-> <<f_st, f_area, f_restrictive_id, s_mult_code, s_seq_no>>,
     trailing |-> <<f_restrictive_name>>,
     doms     |-> <<{<<"S">>}, {s_USA}, {KSRENON, RENO_NORTH}, {<<"A">>, <<"B">>},
                    {<<"1">>}, {RENO_NV, FALLON}>>,
     max      |-> MaxRestrictiveBatch]

\* The table of the example in build_select_one's docstring, cut down to the
\* one group field that is None there: a group key may be None in every
\* column.
Waypoints ==
    [table    |-> t_waypoints,
     leading  |-> <<f_environment_region, s_seq_no>>,
     trailing |-> <<>>,
     doms     |-> <<{<<"P">>, <<"H">>, None}, {<<"1">>}>>,
     max      |-> MaxBatch]

Schemas == {TimeOfOp, RestrictivePrimary, Waypoints}

\* ordered_fields(): leading, then trailing; to_dict() has the same order.
ordered_fields(sch) == sch.leading \o sch.trailing

\* to_create_statement: PRIMARY KEY (leading fields) when there are any, so
\* the table's index list holds one unique index on them.
index_list(sch) ==
    IF sch.leading # <<>> THEN <<[unique |-> TRUE, cols |-> sch.leading]>> ELSE <<>>

\* process_table: key_fields = fields_before(first.ordered_leading())
key_fields(sch) == fields_before(sch.leading, s_seq_no)

\* row[c] for a row of the table
Get(sch, r, c) == r[IndexOf(ordered_fields(sch), c)]

\* row.get(c): None for a missing column
GetOrNone(sch, r, c) ==
    IF IndexOf(ordered_fields(sch), c) = 0 THEN None ELSE Get(sch, r, c)

\* All tuples whose i-th value is drawn from doms[i].
RECURSIVE Tuples(_)
Tuples(doms) ==
    IF doms = <<>> THEN {<<>>}
    ELSE {<<h>> \o t : h \in Head(doms), t \in Tuples(Tail(doms))}

\* The rows a record list of the schema can hold, and the batches of them.
Rows(sch) == Tuples(sch.doms)

Batches(sch) == UNION {[1..n -> Rows(sch)] : n \in 0..sch.max}

\* _unique_indexes(cur, table): `cur` is a cursor, and the PRAGMA index_info
\* inside the loop is executed on the cursor the loop iterates, which ends
\* the iteration: the result holds the columns of the first unique index of
\* the index list, and nothing after it.
RECURSIVE _unique_indexes(_)
_unique_indexes(idx) ==
    IF idx = <<>> THEN <<>>
    ELSE IF Head(idx).unique THEN <<Head(idx).cols>>
         ELSE _unique_indexes(Tail(idx))

\* build_select_one with the `continue` left out: a None value stays in the
\* WHERE clause and is compared with "=".
build_select_one_keepNone(columns, values) ==
    [err   |-> Len(columns) # Len(values),
     where |-> IF Len(columns) # Len(values) THEN <<>>
               ELSE [i \in 1..Len(columns) |-> <<columns[i], values[i]>>]]

\* build_select_one(table, columns, values): a column whose value is None
\* is left out of the WHERE clause (the `continue`); the others are compared
\* with "=".  err is set when the arities differ (ValueError).
build_select_one(columns, values) ==
    [err   |-> Len(columns) # Len(values),
     where |-> IF Len(columns) # Len(values) THEN <<>>
               ELSE SelectSeq([i \in 1..Len(columns) |-> <<columns[i], values[i]>>],
                              LAMBDA p : p[2] # None)]

\* The rows a SELECT * FROM table WHERE c1 = ? AND ... returns.  SQL's "="
\* is never true of a NULL, stored or bound.
Select(sch, st, where) ==
    {r \in BagToSet(st) :
        \A i \in 1..Len(where) :
            /\ where[i][2] # None
            /\ Get(sch, r, where[i][1]) # None
            /\ Get(sch, r, where[i][1]) = where[i][2]}

\* cur.execute(sql, params).fetchone() of a build_select_one statement is a
\* row: with no column left the statement is "... WHERE  LIMIT 1", which
\* the store rejects (OperationalError), reported as err.
Probe(sch, st, columns, values) ==
    LET q == build_select_one(columns, values)
    IN  [err |-> q.err \/ q.where = <<>>,
         hit |-> ~q.err /\ q.where # <<>> /\ Select(sch, st, q.where) # {}]
---------------------------------------------------------------------------
\* Key equivalence expansion (insert_groups_with_conflict_report, the part
\* of the loop body before the "check").

\* id_field = [c for c in group_fields if c.endswith("_id")]
IdFields(group_fields) == SelectSeq(group_fields, LAMBDA c : EndsWith(c, s_id))

\* name_field = [c for c in grp_rows[0] if c.endswith("_name")], first or None
NameField(cols) ==
    LET nf == SelectSeq(cols, LAMBDA c : EndsWith(c, s_name))
    IN  IF nf = <<>> THEN None ELSE nf[1]

\* The gate with the test of the table name left out.
Expands_anyTable(table, group_fields, gkey) ==
    /\ IdFields(group_fields) # <<>>
    /\ Truthy(gkey[IndexOf(group_fields, IdFields(group_fields)[1])])

\* 'restrictive' in table and id_field and gdict.get(id_field[0])
Expands(table, group_fields, gkey) ==
    /\ Contains(table, s_restrictive)
    /\ IdFields(group_fields) # <<>>
    /\ Truthy(gkey[IndexOf(group_fields, IdFields(group_fields)[1])])

\* The suffix step: the candidates appended for the last letter of _id,
\* starting from cid, the value `copy` holds for the identifier.
SuffixIds(cid, last, usa) ==
    IF last = "N" THEN <<DropLast(cid) \o s_NORTH>>
    ELSE IF last = "E" THEN <<DropLast(cid) \o s_EAST>>
    ELSE IF last = "W" THEN <<DropLast(cid) \o s_WEST>>
    ELSE IF last = "S" THEN <<DropLast(cid) \o s_SOUTH>>
    ELSE <<DropLast(cid) \o <<" ">> \o Phonetic(last)>>
         \o (IF usa THEN <<DropLast(DropLast(cid) \o <<" ">> \o Phonetic(last))>>
             ELSE <<>>)

\* The identifiers of the derived candidates, in the order they are
\* appended to gkeys.  usa is gkey[1] == 'USA'.
DerivedIds(_id, usa) ==
    IF _id[1] = "K" \/ _id[1] = "S"
    THEN LET typed == Len(_id) > 1 /\ _id[2] \in {"S", "R", "A", "P", "W"}
             strip == <<DropFirst(_id, 1)>>
                      \o (IF typed THEN <<DropFirst(_id, 2)>> ELSE <<>>)
             cid   == strip[Len(strip)]
         IN  strip
             \o SuffixIds(cid, _id[Len(_id)], usa)
             \o (IF Contains(_id, s_HIH) THEN <<Replace(_id, s_HIH, s_sp_HIGH)>> ELSE <<>>)
             \o (IF Contains(_id, s_HIGH) THEN <<Replace(_id, s_HIGH, s_sp_HIGH)>>
                 ELSE IF Contains(_id, s_LOW) THEN <<Replace(_id, s_LOW, s_sp_LOW)>>
                 ELSE <<>>)
    ELSE IF Contains(_id, s_HIH) THEN <<Replace(_id, s_HIH, s_sp_HIGH)>>
    ELSE IF Contains(_id, s_LOW) THEN <<Replace(_id, s_LOW, s_sp_LOW)>>
    ELSE <<>>

\* gkeys: the literal key, then one key per derived identifier, equal to the
\* literal key but for the identifier column (list(copy.values())).
CandidateKeys(table, group_fields, gkey) ==
    IF ~Expands(table, group_fields, gkey) THEN <<gkey>>
    ELSE LET k   == IndexOf(group_fields, IdFields(group_fields)[1])
             ids == DerivedIds(gkey[k], Len(gkey) >= 2 /\ gkey[2] = s_USA)
         IN  <<gkey>> \o [i \in 1..Len(ids) |-> [gkey EXCEPT ![k] = ids[i]]]
---------------------------------------------------------------------------
\* The existence check of one group (the "check" loop over gkeys).

\* fieldsKeys: the group fields that are no identifier, type or mult_code.
FallbackFields(group_fields) ==
    SelectSeq(group_fields,
              LAMBDA f : ~Contains(f, s_id) /\ ~Contains(f, s_type)
                         /\ ~Contains(f, s_mult_code))

\* stored LIKE '%' || seg || '%' for the upper-case ASCII names of the model
\* (no '%' or '_' in seg): a non-NULL stored value that contains seg.
Like(stored, seg) == stored # None /\ Contains(stored, seg)

\* The name-based fallback statement: build_select_one over fieldsKeys with
\* the values of the group's first row, extended by "AND name LIKE ...".
\* With no column left the text is "WHERE  AND ...", which the store rejects.
NameProbe(sch, st, group_fields, row0, name_field, _name) ==
    LET fk == FallbackFields(group_fields)
        q  == build_select_one(fk, [i \in 1..Len(fk) |-> GetOrNone(sch, row0, fk[i])])
    IN  [err |-> q.err \/ q.where = <<>>,
         hit |-> /\ ~q.err /\ q.where # <<>>
                 /\ \E r \in Select(sch, st, q.where) :
                        Like(Get(sch, r, name_field), FirstSegment(_name))]

\* The condition of the `elif` of the check loop: further candidates were
\* derived, id_field was rebound to a field name (the expansion ran), and
\* the first row of the group has a _name column with a non-empty value.
NameFallback(sch, group_fields, gkeys, row0) ==
    LET name_field == NameField(ordered_fields(sch))
    IN  /\ Len(gkeys) > 1
        /\ Expands(sch.table, group_fields, gkeys[1])
        /\ name_field # None
        /\ Truthy(Get(sch, row0, name_field))

\* The loop "for gkey in gkeys" from candidate i on.  It yields whether the
\* group was judged existing, whether a statement raised, and the key that
\* the loop variable gkey is bound to when the loop is left.
RECURSIVE CheckFrom(_, _, _, _, _, _)
CheckFrom(sch, st, group_fields, gkeys, row0, i) ==
    LET gkey       == gkeys[i]
        name_field == NameField(ordered_fields(sch))
        _name      == IF name_field = None THEN None ELSE Get(sch, row0, name_field)
        direct     == Probe(sch, st, group_fields, gkey)
        fallback   == NameFallback(sch, group_fields, gkeys, row0)
        prefix     == Probe(sch, st, DropLast(group_fields), DropLast(gkey))
        byname     == NameProbe(sch, st, group_fields, row0, name_field, _name)
        next       == IF i = Len(gkeys)
                      THEN [exists |-> FALSE, err |-> FALSE, gkey |-> gkey]
                      ELSE CheckFrom(sch, st, group_fields, gkeys, row0, i + 1)
    IN  IF direct.err THEN [exists |-> FALSE, err |-> TRUE, gkey |-> gkey]
        ELSE IF direct.hit THEN [exists |-> TRUE, err |-> FALSE, gkey |-> gkey]
        ELSE IF ~fallback THEN next
        ELSE IF prefix.err THEN [exists |-> FALSE, err |-> TRUE, gkey |-> gkey]
        ELSE IF prefix.hit THEN [exists |-> FALSE, err |-> FALSE, gkey |-> gkey]
        ELSE IF byname.err THEN [exists |-> FALSE, err |-> TRUE, gkey |-> gkey]
        ELSE IF byname.hit THEN [exists |-> TRUE, err |-> FALSE, gkey |-> gkey]
        ELSE next

GroupCheck(sch, st, group_fields, gkeys, row0) ==
    CheckFrom(sch, st, group_fields, gkeys, row0, 1)

---------------------------------------------------------------------------
\* The optimistic insert and the conflict report.

\* INSERT OR IGNORE of one row: the row is ignored when it collides with a
\* stored row on some unique index of the table; a NULL collides with
\* nothing.
Collides(sch, st, r) ==
    \E i \in 1..Len(index_list(sch)) :
        /\ index_list(sch)[i].unique
        /\ \E s \in BagToSet(st) :
              \A c \in Range(index_list(sch)[i].cols) :
                  Get(sch, r, c) # None /\ Get(sch, r, c) = Get(sch, s, c)

\* The stored rows a row collides with on some unique index.
Colliding(sch, st, r) ==
    {s \in BagToSet(st) :
        \E i \in 1..Len(index_list(sch)) :
            /\ index_list(sch)[i].unique
            /\ \A c \in Range(index_list(sch)[i].cols) :
                   Get(sch, r, c) # None /\ Get(sch, r, c) = Get(sch, s, c)}

\* executemany of INSERT OR REPLACE: the stored rows a row collides with
\* are deleted and the row is inserted.
RECURSIVE executemany_orReplace(_, _, _)
executemany_orReplace(sch, st, grp_rows) ==
    IF grp_rows = <<>> THEN st
    ELSE LET r    == Head(grp_rows)
             kept == [s \in BagToSet(st) \ Colliding(sch, st, r) |-> CopiesIn(s, st)]
         IN  executemany_orReplace(sch, kept (+) SetToBag({r}), Tail(grp_rows))

\* cur.executemany(insert_sql, grp_rows): row after row.
RECURSIVE executemany(_, _, _)
executemany(sch, st, grp_rows) ==
    IF grp_rows = <<>> THEN st
    ELSE executemany(sch,
                     IF Collides(sch, st, Head(grp_rows)) THEN st
                     ELSE st (+) SetToBag({Head(grp_rows)}),
                     Tail(grp_rows))

\* The positions in grp_rows of the rows executemany ignored.
RECURSIVE IgnoredFrom(_, _, _, _)
IgnoredFrom(sch, st, grp_rows, i) ==
    IF i > Len(grp_rows) THEN {}
    ELSE IF Collides(sch, st, grp_rows[i])
         THEN {i} \cup IgnoredFrom(sch, st, grp_rows, i + 1)
         ELSE IgnoredFrom(sch, st (+) SetToBag({grp_rows[i]}), grp_rows, i + 1)

\* "existing": SELECT * FROM table WHERE c=? AND ... over the group fields,
\* bound to the value of gkey when the check loop was left.
ExistingRows(sch, st, group_fields, gkey) ==
    Select(sch, st, [i \in 1..Len(group_fields) |-> <<group_fields[i], gkey[i]>>])

\* The clashes reported: for each introspected unique index and each
\* distinct projection of an attempted row, the row the store returns.
Clashes(sch, st, grp_rows) ==
    LET uniq == _unique_indexes(index_list(sch))
    IN  {[cols |-> uniq[u],
          uk   |-> [j \in 1..Len(uniq[u]) |-> Get(sch, grp_rows[n], uniq[u][j])],
          row  |-> CHOOSE r \in Select(sch, st,
                       [j \in 1..Len(uniq[u]) |->
                           <<uniq[u][j], Get(sch, grp_rows[n], uniq[u][j])>>]) : TRUE]
         : <<u, n>> \in {p \in (1..Len(uniq)) \X (1..Len(grp_rows)) :
                 Select(sch, st,
                     [j \in 1..Len(uniq[p[1]]) |->
                         <<uniq[p[1]][j], Get(sch, grp_rows[p[2]], uniq[p[1]][j])>>]) # {}}}

---------------------------------------------------------------------------
\* The load call, group by group.

\* groups: the rows bucketed by group key, keys in order of first
\* appearance (a dict), rows in batch order.
\* tuple(r[c] for c in group_fields)
GroupKey(sch, group_fields, r) ==
    [i \in 1..Len(group_fields) |-> Get(sch, r, group_fields[i])]

RECURSIVE Buckets(_, _, _)
Buckets(sch, group_fields, rs) ==
    IF rs = <<>> THEN <<>>
    ELSE LET k == GroupKey(sch, group_fields, Head(rs))
         IN  <<[key  |-> k,
                rows |-> SelectSeq(rs, LAMBDA r : GroupKey(sch, group_fields, r) = k)]>>
             \o Buckets(sch, group_fields,
                        SelectSeq(rs, LAMBDA r : GroupKey(sch, group_fields, r) # k))

\* What a call has let the outside see so far: the report of the group
\* processed last (kind, literal key, gkey as the loop left it, gkeys, the
\* store before the group, the attempted rows, the "existing" rows and the
\* clashes printed), the outcome of every group processed (trail), the kinds
\* of statement executed on the cursor (statements), and, for a function
\* applied on its own, its arguments and its result (args, ret).
NoLog ==
    [kind |-> "none", literal |-> <<>>, gkey |-> <<>>, gkeys |-> <<>>,
     before |-> EmptyBag, attempted |-> <<>>, existing |-> {}, clashes |-> {},
     trail |-> <<>>, statements |-> {}, args |-> <<>>, ret |-> <<>>]

Init ==
    /\ schema \in Schemas
    /\ store = EmptyBag
    /\ pc = "idle"
    /\ rows = <<>>
    /\ groups = <<>>
    /\ issued = FALSE
    /\ added = 0
    /\ calls = 0
    /\ result = "none"
    /\ log = NoLog

\* The statements _unique_indexes executes: PRAGMA index_list, and PRAGMA
\* index_info for the first unique index it meets.
IntrospectionStatements(idx) ==
    {"index_list"} \cup (IF _unique_indexes(idx) # <<>> THEN {"index_info"} ELSE {})

\* The call without the test "if not rows".
Call_noEmptyCheck(batch, n) ==
    /\ rows' = batch
    /\ calls' = n
    /\ issued' = FALSE
    /\ added' = 0
    /\ log' = [NoLog EXCEPT !.before = store,
                            !.statements = IntrospectionStatements(index_list(schema))]
    /\ pc' = "loop"
    /\ result' = "none"
    /\ groups' = Buckets(schema, key_fields(schema), batch)
    /\ UNCHANGED <<schema, store>>

\* insert_groups_with_conflict_report up to the loop: an empty batch
\* returns False at once; otherwise the unique indexes are introspected and
\* the rows are bucketed.
Call(batch, n) ==
    /\ rows' = batch
    /\ calls' = n
    /\ issued' = FALSE
    /\ added' = 0
    /\ IF batch = <<>>
       THEN /\ pc' = "done"
            /\ result' = "False"
            /\ groups' = <<>>
            /\ log' = [NoLog EXCEPT !.before = store]
       ELSE /\ pc' = "loop"
            /\ result' = "none"
            /\ groups' = Buckets(schema, key_fields(schema), batch)
            /\ log' = [NoLog EXCEPT
                         !.before = store,
                         !.statements = IntrospectionStatements(index_list(schema))]
    /\ UNCHANGED <<schema, store>>

\* process_table hands a record list to the loader.
Load ==
    /\ pc = "idle"
    /\ \E batch \in Batches(schema) : Call(batch, 1)

\* The same record list is handed to the loader once more.
Reload ==
    /\ pc = "done"
    /\ calls = 1
    /\ result # "raise"
    /\ Call(rows, 2)

\* The loop body ended with `break` or `return` after a skipped group.
NextGroups_stopAfterSkip(gs, kind) ==
    IF kind = "exists" THEN <<>> ELSE Tail(gs)

\* The groups still to come when a group is done with the outcome kind:
\* the loop goes on (`continue`, or the end of the body) whatever it was.
NextGroups(gs, kind) == Tail(gs)

\* One pass of "for gkey, grp_rows in groups.items()".
ProcessGroup ==
    /\ pc = "loop"
    /\ groups # <<>>
    /\ LET gf     == key_fields(schema)
           g      == Head(groups)
           gkeys  == CandidateKeys(schema.table, gf, g.key)
           chk    == GroupCheck(schema, store, gf, gkeys, g.rows[1])
           after  == executemany(schema, store, g.rows)
           n      == BagCardinality(after) - BagCardinality(store)
           entry(kind) ==
                     [kind |-> kind, literal |-> g.key, gkey |-> chk.gkey,
                      gkeys |-> gkeys, before |-> store, attempted |-> g.rows,
                      existing |-> {}, clashes |-> {},
                      trail |-> Append(log.trail, [key |-> g.key, kind |-> kind]),
                      statements |-> log.statements \cup {"select"}
                          \cup (IF kind \in {"inserted", "conflict"}
                                THEN {"insert"} ELSE {}),
                      args |-> <<>>, ret |-> <<>>]
       IN  IF chk.err
           THEN /\ pc' = "done"
                /\ result' = "raise"
                /\ groups' = <<>>
                /\ log' = entry("raise")
                /\ UNCHANGED <<store, issued, added>>
           ELSE IF chk.exists
           THEN /\ groups' = NextGroups(groups, "exists")
                /\ log' = entry("exists")
                /\ UNCHANGED <<store, issued, added, pc, result>>
           ELSE /\ store' = after
                /\ issued' = TRUE
                /\ added' = added + n
                /\ IF n = Len(g.rows)
                   THEN /\ groups' = NextGroups(groups, "inserted")
                        /\ log' = entry("inserted")
                   ELSE /\ groups' = NextGroups(groups, "conflict")
                        /\ log' = [entry("conflict") EXCEPT
                                     !.existing = ExistingRows(schema, after, gf, chk.gkey),
                                     !.clashes = Clashes(schema, after, g.rows)]
                /\ UNCHANGED <<pc, result>>
    /\ UNCHANGED <<schema, rows, calls>>

\* The loop is over: return True.
Return ==
    /\ pc = "loop"
    /\ groups = <<>>
    /\ pc' = "done"
    /\ result' = "True"
    /\ UNCHANGED <<schema, store, rows, groups, issued, added, calls, log>>

\* The caller drops the record list.
Forget ==
    /\ pc = "done"
    /\ pc' = "idle"
    /\ rows' = <<>>
    /\ groups' = <<>>
    /\ issued' = FALSE
    /\ added' = 0
    /\ calls' = 0
    /\ result' = "none"
    /\ log' = NoLog
    /\ UNCHANGED <<schema, store>>

Next == Load \/ Reload \/ ProcessGroup \/ Return \/ Forget

Spec == Init /\ [][Next]_vars

---------------------------------------------------------------------------
\* The expansion on its own: group keys of a restrictive-airspace table
\* whose identifier is put together from a regional prefix, a type letter,
\* a body and a suffix, each of which may be missing.

IdPrefixes == {<<>>, <<"K">>, <<"S">>}

IdTypes == {<<>>, <<"S">>, <<"R">>, <<"A">>, <<"P">>, <<"W">>, <<"X">>}

IdBodies == {<<>>, FOO, RENO, s_HIH, s_LOW, s_HIGH, LOWHIGH, HIHLOW}

IdSuffixes == {<<>>, <<"N">>, <<"E">>, <<"W">>, <<"S">>, <<"A">>, <<"1">>}

IdInputs == {p \o t \o b \o d : p \in IdPrefixes, t \in IdTypes, b \in IdBodies, d \in IdSuffixes}

AreaInputs == {s_USA, PAC}

InitExpand ==
    /\ schema = RestrictivePrimary
    /\ store = EmptyBag
    /\ pc = "expand"
    /\ rows = <<>>
    /\ groups = <<>>
    /\ issued = FALSE
    /\ added = 0
    /\ calls = 0
    /\ result = "none"
    /\ log = NoLog

\* gkeys is built for one group key.
Expand ==
    /\ pc = "expand"
    /\ \E id \in IdInputs, area \in AreaInputs :
          LET gkey == <<<<"S">>, area, id, <<"A">>>>
          IN  log' = [NoLog EXCEPT
                        !.kind = "expand",
                        !.literal = gkey,
                        !.gkey = gkey,
                        !.gkeys = CandidateKeys(schema.table, key_fields(schema), gkey)]
    /\ pc' = "expanded"
    /\ UNCHANGED <<schema, store, rows, groups, issued, added, calls, result>>

NextExpand == Expand

SpecExpand == InitExpand /\ [][NextExpand]_vars

---------------------------------------------------------------------------
\* fields_before on its own: field lists of up to MaxFields names, with
\* repetitions, and a pivot that may be missing from them.

FieldNames == {f_x, f_z, s_seq_no}

FieldLists == UNION {[1..n -> FieldNames] : n \in 0..MaxFields}

Pivots == {s_seq_no, f_x, f_dow}

InitFields ==
    /\ schema = TimeOfOp
    /\ store = EmptyBag
    /\ pc = "fields_before"
    /\ rows = <<>>
    /\ groups = <<>>
    /\ issued = FALSE
    /\ added = 0
    /\ calls = 0
    /\ result = "none"
    /\ log = NoLog

\* fields_before(fields, pivot) is called: args holds the list handed in,
\* the pivot, and the list as the call leaves it (the function only reads
\* it: index, slice, list()); ret holds the list returned.
FieldsBefore ==
    /\ pc = "fields_before"
    /\ \E fields \in FieldLists, pivot \in Pivots :
          log' = [NoLog EXCEPT
                    !.kind = "fields_before",
                    !.args = <<fields, pivot, fields>>,
                    !.ret = fields_before(fields, pivot)]
    /\ pc' = "returned"
    /\ UNCHANGED <<schema, store, rows, groups, issued, added, calls, result>>

NextFields == FieldsBefore

SpecFields == InitFields /\ [][NextFields]_vars

---------------------------------------------------------------------------
\* The batched existence probe in the body of bulk_insert_if_group_new (the
\* statements after its `return`), as a function of the table, the batch and
\* the parameter limit.

\* _param_limit, and the smaller limits it is compared with.
_param_limit == 999

Budgets == {_param_limit, 6, 2, 1}

\* batch_sz = max(1, _param_limit // key_width)
batch_sz(limit, key_width) ==
    IF limit \div key_width >= 1 THEN limit \div key_width ELSE 1

\* The chunks with the range stepping one key too far:
\* range(0, len(all_keys), batch_sz + 1).
RECURSIVE Chunks_stepTooFar(_, _)
Chunks_stepTooFar(all_keys, sz) ==
    IF all_keys = <<>> THEN <<>>
    ELSE <<SubSeq(all_keys, 1, IF sz < Len(all_keys) THEN sz ELSE Len(all_keys))>>
         \o Chunks_stepTooFar(DropFirst(all_keys, IF sz + 1 < Len(all_keys)
                                                   THEN sz + 1 ELSE Len(all_keys)), sz)

\* all_keys[i: i + batch_sz] for i in range(0, len(all_keys), batch_sz)
RECURSIVE Chunks(_, _)
Chunks(all_keys, sz) ==
    IF all_keys = <<>> THEN <<>>
    ELSE <<SubSeq(all_keys, 1, IF sz < Len(all_keys) THEN sz ELSE Len(all_keys))>>
         \o Chunks(DropFirst(all_keys, IF sz < Len(all_keys) THEN sz ELSE Len(all_keys)), sz)

\* WITH keys(cols) AS (VALUES chunk) SELECT cols FROM keys JOIN table
\* USING (cols): the keys of the chunk that equal a stored row on every
\* column; a NULL equals nothing.
ChunkQuery(sch, st, cols, chunk) ==
    {chunk[j] : j \in {i \in 1..Len(chunk) :
        \E r \in BagToSet(st) :
            \A c \in 1..Len(cols) :
                /\ chunk[i][c] # None
                /\ Get(sch, r, cols[c]) # None
                /\ Get(sch, r, cols[c]) = chunk[i][c]}}

\* existing_keys after the loop over the chunks.
existing_keys(sch, st, cols, all_keys, limit) ==
    UNION {ChunkQuery(sch, st, cols, Chunks(all_keys, batch_sz(limit, Len(cols)))[n])
           : n \in 1..Len(Chunks(all_keys, batch_sz(limit, Len(cols))))}

\* The tables probed, and the contents they can have: every set of rows
\* whose group key is not None in every column is what some sequence of
\* loads leaves behind.
ProbedSchemas == {TimeOfOp, Waypoints}

Storable(sch, r) ==
    \E i \in 1..Len(key_fields(sch)) : GroupKey(sch, key_fields(sch), r)[i] # None

Stores(sch) == {SetToBag(S) : S \in SUBSET {r \in Rows(sch) : Storable(sch, r)}}

InitProbe ==
    /\ schema \in ProbedSchemas
    /\ store \in Stores(schema)
    /\ pc = "probe"
    /\ rows = <<>>
    /\ groups = <<>>
    /\ issued = FALSE
    /\ added = 0
    /\ calls = 0
    /\ result = "none"
    /\ log = NoLog

\* The keys of a batch are probed under some parameter limit: args holds
\* all_keys and the limit, ret the chunks and existing_keys.
ExistingKeys ==
    /\ pc = "probe"
    /\ \E batch \in Batches(schema) \ {<<>>}, limit \in Budgets :
          LET gs       == Buckets(schema, key_fields(schema), batch)
              all_keys == [i \in 1..Len(gs) |-> gs[i].key]
          IN  /\ rows' = batch
              /\ groups' = gs
              /\ log' = [NoLog EXCEPT
                           !.kind = "existing_keys",
                           !.before = store,
                           !.args = <<all_keys, limit>>,
                           !.ret = [chunks |-> Chunks(all_keys,
                                        batch_sz(limit, Len(key_fields(schema)))),
                                    keys   |-> existing_keys(schema, store,
                                        key_fields(schema), all_keys, limit)]]
    /\ pc' = "probed"
    /\ UNCHANGED <<schema, store, issued, added, calls, result>>

NextProbe == ExistingKeys

SpecProbe == InitProbe /\ [][NextProbe]_vars

---------------------------------------------------------------------------
\* Two loaders, each on a connection of its own, are handed the same batch
\* for the same empty table.  The variables pc, groups, issued, added,
\* result and log hold one value per loader.  A loader's probe of a group,
\* its insert (one transaction, committed when the `with` block is left)
\* and its diagnosis are steps of their own, and the steps of the two
\* loaders interleave.

Loaders == {1, 2}

InitRace ==
    /\ schema \in Schemas
    /\ store = EmptyBag
    /\ rows \in Batches(schema) \ {<<>>}
    /\ pc = [l \in Loaders |-> "check"]
    /\ groups = [l \in Loaders |-> Buckets(schema, key_fields(schema), rows)]
    /\ issued = [l \in Loaders |-> FALSE]
    /\ added = [l \in Loaders |-> 0]
    /\ calls = Cardinality(Loaders)
    /\ result = [l \in Loaders |-> "none"]
    /\ log = [l \in Loaders |->
                [NoLog EXCEPT !.statements = IntrospectionStatements(index_list(schema))]]

\* Loader l probes the candidates of its next group.
RaceCheck(l) ==
    /\ pc[l] = "check"
    /\ groups[l] # <<>>
    /\ LET gf    == key_fields(schema)
           g     == Head(groups[l])
           gkeys == CandidateKeys(schema.table, gf, g.key)
           chk   == GroupCheck(schema, store, gf, gkeys, g.rows[1])
           entry(kind) ==
                    [kind |-> kind, literal |-> g.key, gkey |-> chk.gkey,
                     gkeys |-> gkeys, before |-> store, attempted |-> g.rows,
                     existing |-> {}, clashes |-> {},
                     trail |-> log[l].trail,
                     statements |-> log[l].statements \cup {"select"},
                     args |-> <<>>, ret |-> <<>>]
           done(kind) ==
                    [entry(kind) EXCEPT
                       !.trail = Append(log[l].trail, [key |-> g.key, kind |-> kind])]
       IN  IF chk.err
           THEN /\ pc' = [pc EXCEPT ![l] = "done"]
                /\ result' = [result EXCEPT ![l] = "raise"]
                /\ groups' = [groups EXCEPT ![l] = <<>>]
                /\ log' = [log EXCEPT ![l] = done("raise")]
           ELSE IF chk.exists
           THEN /\ groups' = [groups EXCEPT ![l] = NextGroups(groups[l], "exists")]
                /\ log' = [log EXCEPT ![l] = done("exists")]
                /\ UNCHANGED <<pc, result>>
           ELSE /\ pc' = [pc EXCEPT ![l] = "insert"]
                /\ log' = [log EXCEPT ![l] = entry("absent")]
                /\ UNCHANGED <<groups, result>>
    /\ UNCHANGED <<schema, store, rows, issued, added, calls>>

\* Loader l inserts the rows of the group it found absent, and commits.
RaceInsert(l) ==
    /\ pc[l] = "insert"
    /\ LET g     == Head(groups[l])
           after == executemany(schema, store, g.rows)
           n     == BagCardinality(after) - BagCardinality(store)
           kind  == IF n = Len(g.rows) THEN "inserted" ELSE "conflict"
       IN  /\ store' = after
           /\ issued' = [issued EXCEPT ![l] = TRUE]
           /\ added' = [added EXCEPT ![l] = added[l] + n]
           /\ log' = [log EXCEPT
                        ![l].kind = kind,
                        ![l].before = store,
                        ![l].trail = Append(log[l].trail, [key |-> g.key, kind |-> kind]),
                        ![l].statements = log[l].statements \cup {"insert"}]
           /\ IF kind = "inserted"
              THEN /\ groups' = [groups EXCEPT ![l] = NextGroups(groups[l], kind)]
                   /\ pc' = [pc EXCEPT ![l] = "check"]
              ELSE /\ pc' = [pc EXCEPT ![l] = "diagnose"]
                   /\ UNCHANGED groups
    /\ UNCHANGED <<schema, rows, calls, result>>

\* Loader l, whose insert affected fewer rows than it attempted, prints the
\* report and goes on to its next group.
RaceDiagnose(l) ==
    /\ pc[l] = "diagnose"
    /\ log' = [log EXCEPT
                 ![l].existing = ExistingRows(schema, store, key_fields(schema), log[l].gkey),
                 ![l].clashes = Clashes(schema, store, log[l].attempted)]
    /\ groups' = [groups EXCEPT ![l] = NextGroups(groups[l], "conflict")]
    /\ pc' = [pc EXCEPT ![l] = "check"]
    /\ UNCHANGED <<schema, store, rows, issued, added, calls, result>>

\* Loader l has no group left: return True.
RaceReturn(l) ==
    /\ pc[l] = "check"
    /\ groups[l] = <<>>
    /\ pc' = [pc EXCEPT ![l] = "done"]
    /\ result' = [result EXCEPT ![l] = "True"]
    /\ UNCHANGED <<schema, store, rows, groups, issued, added, calls, log>>

NextRace ==
    \E l \in Loaders : RaceCheck(l) \/ RaceInsert(l) \/ RaceDiagnose(l) \/ RaceReturn(l)

SpecRace == InitRace /\ [][NextRace]_vars

---------------------------------------------------------------------------
\* Schema derivation (TableBase.get_fields, to_create_statement,
\* to_insert_statement).  A record shape is its table name, its ordered
\* leading and trailing fields, and the set of its fields that have a type
\* hint.  A statement is held as its parts: whether deriving it raised, the
\* table, the columns and, for CREATE, the primary key.

s_table_name == <<"t", "a", "b", "l", "e", "_", "n", "a", "m", "e">>

\* list.remove(x): the list without the first x.
RemoveFirst(seq, x) ==
    IF IndexOf(seq, x) = 0 THEN seq
    ELSE SubSeq(seq, 1, IndexOf(seq, x) - 1) \o DropFirst(seq, IndexOf(seq, x))

\* get_fields(include_types): ordered_fields() without "table_name"; with
\* types, only the fields that have a type hint.
get_fields(shape, include_types) ==
    IF include_types
    THEN SelectSeq(RemoveFirst(ordered_fields(shape), s_table_name),
                   LAMBDA f : f \in shape.hints)
    ELSE RemoveFirst(ordered_fields(shape), s_table_name)

\* to_create_statement: CREATE TABLE IF NOT EXISTS table (typed fields
\* [, PRIMARY KEY (leading fields)]); nothing in it raises.
to_create_statement(shape) ==
    [raises      |-> FALSE,
     table       |-> shape.table,
     columns     |-> get_fields(shape, TRUE),
     primary_key |-> IF shape.leading # <<>> THEN shape.leading ELSE <<>>]

\* to_insert_statement: INSERT OR IGNORE INTO table (fields) VALUES
\* (:field, ...); nothing in it raises.
to_insert_statement(shape) ==
    [raises       |-> FALSE,
     table        |-> shape.table,
     columns      |-> get_fields(shape, FALSE),
     placeholders |-> get_fields(shape, FALSE)]

RecordShapes ==
    [table    : {t_time_of_op},
     leading  : UNION {[1..n -> {f_x, s_seq_no}] : n \in 0..MaxLeading},
     trailing : {<<>>, <<f_dow>>, <<s_table_name>>},
     hints    : SUBSET {f_x, s_seq_no, f_dow}]

InitSchema ==
    /\ schema = TimeOfOp
    /\ store = EmptyBag
    /\ pc = "describe"
    /\ rows = <<>>
    /\ groups = <<>>
    /\ issued = FALSE
    /\ added = 0
    /\ calls = 0
    /\ result = "none"
    /\ log = NoLog

\* The statements of a record shape are derived (process_table, before the
\* load): args holds the shape, ret the two statements.
Describe ==
    /\ pc = "describe"
    /\ \E shape \in RecordShapes :
          log' = [NoLog EXCEPT
                    !.kind = "describe",
                    !.args = <<shape>>,
                    !.ret = [create |-> to_create_statement(shape),
                             insert |-> to_insert_statement(shape)]]
    /\ pc' = "described"
    /\ UNCHANGED <<schema, store, rows, groups, issued, added, calls, result>>

NextSchema == Describe

SpecSchema == InitSchema /\ [][NextSchema]_vars

---------------------------------------------------------------------------
\* _unique_indexes on its own: the index list of a table that was created
\* with up to MaxIndexes indexes, unique or not, as PRAGMA index_list
\* returns it.

IndexColumns == {<<f_x>>, <<f_z>>, <<f_x, f_z, s_seq_no>>}

IndexLists ==
    UNION {[1..n -> [unique : BOOLEAN, cols : IndexColumns]] : n \in 0..MaxIndexes}

InitIndexes ==
    /\ schema = TimeOfOp
    /\ store = EmptyBag
    /\ pc = "introspect"
    /\ rows = <<>>
    /\ groups = <<>>
    /\ issued = FALSE
    /\ added = 0
    /\ calls = 0
    /\ result = "none"
    /\ log = NoLog

\* unique_indexes = _unique_indexes(cur, table) with a cursor: args holds
\* the index list of the table, ret the list returned.
Introspect ==
    /\ pc = "introspect"
    /\ \E idx \in IndexLists :
          log' = [NoLog EXCEPT
                    !.kind = "unique_indexes",
                    !.args = <<idx>>,
                    !.ret = _unique_indexes(idx),
                    !.statements = IntrospectionStatements(idx)]
    /\ pc' = "introspected"
    /\ UNCHANGED <<schema, store, rows, groups, issued, added, calls, result>>

NextIndexes == Introspect

SpecIndexes == InitIndexes /\ [][NextIndexes]_vars

---------------------------------------------------------------------------
\* Two loaders, each handed a record list of its own: rows[l] is the list
\* of loader l, of up to MaxOverlapBatch records for the first loader and
\* of one record for the second.  The loaders run as in SpecRace; one
\* after the other is one of the interleavings.

MaxOverlapBatch == 1

OverlapBatches(sch) == UNION {[1..n -> Rows(sch)] : n \in 1..MaxOverlapBatch}

InitOverlap ==
    /\ schema \in Schemas
    /\ store = EmptyBag
    /\ rows \in {[l \in Loaders |-> IF l = 1 THEN b ELSE <<r>>] :
                     b \in OverlapBatches(schema), r \in Rows(schema)}
    /\ pc = [l \in Loaders |-> "check"]
    /\ groups = [l \in Loaders |-> Buckets(schema, key_fields(schema), rows[l])]
    /\ issued = [l \in Loaders |-> FALSE]
    /\ added = [l \in Loaders |-> 0]
    /\ calls = Cardinality(Loaders)
    /\ result = [l \in Loaders |-> "none"]
    /\ log = [l \in Loaders |->
                [NoLog EXCEPT !.statements = IntrospectionStatements(index_list(schema))]]

NextOverlap ==
    \E l \in Loaders : RaceCheck(l) \/ RaceInsert(l) \/ RaceDiagnose(l) \/ RaceReturn(l)

SpecOverlap == InitOverlap /\ [][NextOverlap]_vars

---------------------------------------------------------------------------
\* The gate of the expansion on its own: one group is checked against a
\* store of at most one row, for tables whose name holds 'restrictive' or
\* not, with or without an _id group field, with or without a _name column.

t_controlled_primary == <<"c", "o", "n", "t", "r", "o", "l", "l", "e", "d", "_", "p", "r", "i", "m", "a", "r", "y">>

GateTables == {t_restrictive_primary, t_controlled_primary}

GateSchema(table, with_id, with_name) ==
    [table    |-> table,
     leading  |-> IF with_id
                  THEN <<f_st, f_area, f_restrictive_id, s_mult_code, s_seq_no>>
                  ELSE <<f_st, f_area, s_mult_code, s_seq_no>>,
     trailing |-> IF with_name THEN <<f_restrictive_name>> ELSE <<f_dow>>,
     doms     |-> <<{<<"S">>}, {s_USA}>>
                  \o (IF with_id THEN <<{KSRENON, RENO_NORTH, FOO, None}>> ELSE <<>>)
                  \o <<{<<"A">>, <<"B">>}, {<<"1">>}>>
                  \o (IF with_name THEN <<{RENO_NV, None}>> ELSE <<{<<"2">>}>>),
     max      |-> 1]

GateSchemas ==
    {GateSchema(t, i, n) : t \in GateTables, i \in BOOLEAN, n \in BOOLEAN}

InitGate ==
    /\ schema \in GateSchemas
    /\ store \in {EmptyBag} \cup {SetToBag({r}) : r \in Rows(schema)}
    /\ pc = "gate"
    /\ rows = <<>>
    /\ groups = <<>>
    /\ issued = FALSE
    /\ added = 0
    /\ calls = 0
    /\ result = "none"
    /\ log = NoLog

\* The pre-check of one group of one row: gkeys is built and the check
\* loop runs; ret[1] tells whether the loop reached its `elif` with the
\* condition true (the first probe neither raised nor hit).
GateCheck ==
    /\ pc = "gate"
    /\ \E row0 \in Rows(schema) :
          LET group_fields == key_fields(schema)
              gkey   == GroupKey(schema, group_fields, row0)
              gkeys  == CandidateKeys(schema.table, group_fields, gkey)
              direct == Probe(schema, store, group_fields, gkey)
              chk    == GroupCheck(schema, store, group_fields, gkeys, row0)
          IN  log' = [NoLog EXCEPT
                        !.kind = "gate",
                        !.literal = gkey,
                        !.gkey = chk.gkey,
                        !.gkeys = gkeys,
                        !.before = store,
                        !.attempted = <<row0>>,
                        !.ret = <<~direct.err /\ ~direct.hit
                                  /\ NameFallback(schema, group_fields, gkeys, row0),
                                  chk.exists, chk.err>>]
    /\ pc' = "gated"
    /\ UNCHANGED <<schema, store, rows, groups, issued, added, calls, result>>

NextGate == GateCheck

SpecGate == InitGate /\ [][NextGate]_vars

---------------------------------------------------------------------------
\* Airport.__init__ (records/airports.py): the lines of one airport
\* partition are sorted into primary, continuation, planning and
\* planning_continuation.  A line is given by the three values the
\* constructor extracts from it: the continuation record number, the
\* application type at the continuation widths and the application type at
\* the planning widths.  A record made from_line is written as the position
\* of its line in the partition.  Here rows is airport_partition, calls the
\* number of lines the loop has consumed, issued is was_last_planning and
\* groups holds the four attributes of the Airport (primary as the list of
\* at most one record: empty for None).

\* Largest number of lines of one airport partition.
MaxLines == 3

\* a_table.standard, a_table.planning, and any other application type.
a_standard == "standard"

a_planning == "planning"

a_other == "other"

Applications == {a_standard, a_planning, a_other}

\* The lines: primary lines (continuation record number 0 or 1, whose
\* application types are not looked at) and lines with a higher number.
Lines ==
    {[cont_rec_no |-> n, con |-> a_other, pla |-> a_other] : n \in {0, 1}}
    \cup {[cont_rec_no |-> 2, con |-> c, pla |-> p] : c \in Applications, p \in Applications}

Partitions == UNION {[1..n -> Lines] : n \in 0..MaxLines}

\* was_last_planning is set by a planning line only and is never cleared.
was_last_planning_neverReset(kind, was) == kind = "planning" \/ was

\* was_last_planning after a line of the given kind: False after a primary,
\* a continuation and a planning continuation, True after a planning line,
\* untouched after a line that went nowhere.
was_last_planning(kind, was) ==
    IF kind = "planning" THEN TRUE
    ELSE IF kind = "none" THEN was
    ELSE FALSE

\* The branch of the loop body a line takes.
Classify(line, was) ==
    IF line.cont_rec_no \in {0, 1} THEN "primary"
    ELSE IF line.con = a_standard THEN "continuation"
    ELSE IF line.pla = a_planning THEN "planning"
    ELSE IF was THEN "planning_continuation"
    ELSE "none"

InitAirport ==
    /\ schema = TimeOfOp
    /\ store = EmptyBag
    /\ pc = "lines"
    /\ rows \in Partitions
    /\ groups = [primary |-> <<>>, continuation |-> <<>>, planning |-> <<>>,
                 planning_continuation |-> <<>>]
    /\ issued = FALSE
    /\ added = 0
    /\ calls = 0
    /\ result = "none"
    /\ log = NoLog

\* One pass of "for line in airport_partition".
ConsumeLine ==
    /\ pc = "lines"
    /\ calls < Len(rows)
    /\ LET i    == calls + 1
           kind == Classify(rows[i], issued)
       IN  /\ groups' =
                 IF kind = "primary" THEN [groups EXCEPT !.primary = <<i>>]
                 ELSE IF kind = "continuation"
                 THEN [groups EXCEPT !.continuation = Append(@, i)]
                 ELSE IF kind = "planning"
                 THEN [groups EXCEPT !.planning = Append(@, i)]
                 ELSE IF kind = "planning_continuation"
                 THEN [groups EXCEPT !.planning_continuation = Append(@, i)]
                 ELSE groups
           /\ issued' = was_last_planning(kind, issued)
           /\ calls' = i
           /\ log' = [log EXCEPT !.kind = kind,
                                 !.trail = Append(@, [key |-> i, kind |-> kind])]
    /\ UNCHANGED <<schema, store, pc, rows, added, result>>

\* The partition is used up: the Airport is constructed.
Constructed ==
    /\ pc = "lines"
    /\ calls = Len(rows)
    /\ pc' = "constructed"
    /\ UNCHANGED <<schema, store, rows, groups, issued, added, calls, result, log>>

NextAirport == ConsumeLine \/ Constructed

SpecAirport == InitAirport /\ [][NextAirport]_vars

---------------------------------------------------------------------------
\* Properties.

\* The log entry describes a group the loop has processed.
Processed == log.kind \in {"exists", "inserted", "conflict", "raise"}

\* The key of a stored row over the group fields of the table.
KeyOfRow(r) == GroupKey(schema, key_fields(schema), r)

\* Some row of the bag st has the group key k, NULL equal to NULL.
HoldsKey(st, k) == \E r \in BagToSet(st) : KeyOfRow(r) = k

\* C1: a load of a non-empty batch returns True exactly when it issued an
\* insert for at least one group, and False when every group was judged
\* already present.
C1_TrueIffInsertIssued ==
    (pc = "done" /\ rows # <<>> /\ result \in {"True", "False"})
        => ((result = "True") <=> issued)

\* C2: when the same batch is loaded a second time, the second call inserts
\* no row.
C2_SecondLoadAddsNothing ==
    (pc = "done" /\ calls = 2) => added = 0

\* C3: a group whose literal key is already held by some stored row when the
\* group is processed gets no row inserted: the store is as it was before.
C3_GroupAtomicity ==
    (Processed /\ HoldsKey(log.before, log.literal))
        => (log.kind \in {"exists", "raise"} /\ store = log.before)

\* A group of two rows, neither of them stored, was skipped because a stored
\* row has its key.
C3_Witness ==
    /\ log.kind = "exists"
    /\ HoldsKey(log.before, log.literal)
    /\ Len(log.attempted) = 2
    /\ \A i \in 1..Len(log.attempted) : ~BagIn(log.attempted[i], log.before)
    /\ store = log.before

\* k2 is another spelling of k1: a derived candidate of k1.
AlternateSpelling(k1, k2) ==
    k2 # k1 /\ k2 \in Range(CandidateKeys(schema.table, key_fields(schema), k1))

\* C4: the store never holds two groups that are alternate spellings of one
\* entity.
C4_NoAlternateSpellings ==
    \A r, s \in BagToSet(store) : ~AlternateSpelling(KeyOfRow(r), KeyOfRow(s))

\* C5: a group with some candidate key that is held by a stored row is
\* judged existing and nothing of it is inserted.
C5_MatchingCandidateSkips ==
    (/\ log.kind \in {"exists", "inserted", "conflict"}
     /\ \E i \in 1..Len(log.gkeys) : HoldsKey(log.before, log.gkeys[i]))
        => (log.kind = "exists" /\ store = log.before)

\* C6: a group that has only its literal key is judged existing only if a
\* stored row equals the key column by column, with NULL where the key has
\* NULL.
C6_NullMatchesOnlyNull ==
    (log.kind = "exists" /\ Len(log.gkeys) = 1)
        => HoldsKey(log.before, log.literal)

\* The identifier of the key k of a restrictive-airspace table.
IdOf(k) == k[IndexOf(key_fields(schema), IdFields(key_fields(schema))[1])]

\* The key k with the identifier v.
WithId(k, v) ==
    [k EXCEPT ![IndexOf(key_fields(schema), IdFields(key_fields(schema))[1])] = v]

DirectionWord(d) ==
    IF d = "N" THEN s_NORTH ELSE IF d = "E" THEN s_EAST
    ELSE IF d = "W" THEN s_WEST ELSE s_SOUTH

\* id is a regional prefix, a type letter, a body and a direction letter.
PrefixTypeDirection(id) ==
    /\ Len(id) >= 3
    /\ id[1] \in {"K", "S"}
    /\ id[2] \in {"S", "R", "A", "P", "W"}
    /\ id[Len(id)] \in {"N", "E", "W", "S"}

\* C7: for such an identifier the candidate keys are the literal key, the
\* key without the prefix, the key without prefix and type letter, and the
\* key of body + direction word, in this order; and a stored group under
\* the last spelling makes the incoming group be skipped.
C7_PrefixTypeDirectionKeys ==
    (/\ log.kind \in {"exists", "inserted", "conflict"}
     /\ Contains(schema.table, s_restrictive)
     /\ PrefixTypeDirection(IdOf(log.literal)))
        => LET id   == IdOf(log.literal)
               body == SubSeq(id, 3, Len(id) - 1)
               word == WithId(log.literal, body \o DirectionWord(id[Len(id)]))
           IN  /\ log.gkeys = <<log.literal,
                                WithId(log.literal, DropFirst(id, 1)),
                                WithId(log.literal, DropFirst(id, 2)),
                                word>>
               /\ HoldsKey(log.before, word) => log.kind = "exists"

\* The identifier without its regional prefix and type letter.
MostStripped(id) ==
    IF id[1] \in {"K", "S"}
    THEN IF Len(id) > 1 /\ id[2] \in {"S", "R", "A", "P", "W"}
         THEN DropFirst(id, 2) ELSE DropFirst(id, 1)
    ELSE id

\* C8: in area USA, a prefixed identifier that ends in a letter other than
\* N, E, W, S has a candidate whose identifier is the most-stripped
\* identifier without its last letter.
C8_UsaDropsTrailingLetter ==
    (/\ log.kind = "expand"
     /\ log.literal[2] = s_USA
     /\ Truthy(IdOf(log.literal))
     /\ IdOf(log.literal)[1] \in {"K", "S"}
     /\ IdOf(log.literal)[Len(IdOf(log.literal))]
            \in (DOMAIN alphabetToPhoentic) \ {"N", "E", "W", "S"})
        => WithId(log.literal, DropLast(MostStripped(IdOf(log.literal))))
               \in Range(log.gkeys)

\* C9: an identifier that contains HIH, LOW or HIGH has, for each of them
\* it contains, a candidate with that substring in its space-delimited
\* form.
C9_SubstringNormalised ==
    (log.kind = "expand" /\ Truthy(IdOf(log.literal)))
        => \A p \in {<<s_HIH, s_sp_HIGH>>, <<s_LOW, s_sp_LOW>>, <<s_HIGH, s_sp_HIGH>>} :
               Contains(IdOf(log.literal), p[1])
                   => WithId(log.literal, Replace(IdOf(log.literal), p[1], p[2]))
                          \in Range(log.gkeys)

\* The projection of row r on the columns cols.
Projection(r, cols) == [j \in 1..Len(cols) |-> Get(schema, r, cols[j])]

\* C10: after a partial insert, the clashes reported are exactly the
\* projections of the rows that were ignored, on the unique index they
\* collided on.
C10_ClashesAreIgnoredRows ==
    log.kind = "conflict"
        => LET ign == IgnoredFrom(schema, log.before, log.attempted, 1)
           IN  /\ \A c \in log.clashes :
                      \E i \in ign : Projection(log.attempted[i], c.cols) = c.uk
               /\ \A i \in ign :
                      \E c \in log.clashes :
                          Projection(log.attempted[i], c.cols) = c.uk

\* C11: a load of a non-empty batch never raises to the caller; it ends
\* by returning its boolean, also when a group key is None in every column.
C11_NoFaultEscapes ==
    (pc = "done" /\ rows # <<>>) => result \in {"True", "False"}

\* C12: a load of an empty batch returns False, executes no statement and
\* leaves the store as it was.
C12_EmptyBatchNoOp ==
    (pc = "done" /\ rows = <<>>)
        => (result = "False" /\ log.statements = {} /\ store = log.before)

\* An empty batch was handed to the loader of a table that holds rows.
C12_Witness ==
    /\ pc = "done"
    /\ rows = <<>>
    /\ result = "False"
    /\ store # EmptyBag
    /\ store = log.before

\* The group keys of the batch, in order of first appearance.
BatchKeys ==
    LET ks    == [i \in 1..Len(rows) |-> KeyOfRow(rows[i])]
        first == {i \in 1..Len(rows) : \A j \in 1..(i - 1) : ks[j] # ks[i]}
    IN  [n \in 1..Cardinality(first) |->
            ks[CHOOSE i \in first : Cardinality({j \in first : j < i}) = n - 1]]

C13_FieldsBeforePivot ==
    log.kind = "fields_before"
        => LET fields == log.args[1]
               pivot  == log.args[2]
           IN  /\ (\A i \in 1..Len(fields) : fields[i] # pivot) => log.ret = fields
               /\ \A n \in 1..Len(fields) :
                      (fields[n] = pivot /\ \A i \in 1..(n - 1) : fields[i] # pivot)
                          => log.ret = [i \in 1..(n - 1) |-> fields[i]]
               /\ log.args[3] = fields

\* fields_before was called with a list that holds the pivot twice, the
\* first time after two other fields.
C13_Witness ==
    /\ log.kind = "fields_before"
    /\ Len(log.ret) = 2
    /\ Cardinality({i \in 1..Len(log.args[1]) : log.args[1][i] = log.args[2]}) = 2

\* The concatenation of a sequence of sequences.
RECURSIVE Flatten(_)
Flatten(ss) == IF ss = <<>> THEN <<>> ELSE Head(ss) \o Flatten(Tail(ss))

\* C14: under every parameter limit the batched probe returns the keys of
\* the batch that a stored row holds, the same set as under every other
\* limit, and its chunks are the keys cut up in order: each key is in
\* exactly one chunk, and no chunk is longer than max(1, limit // k).
C14_BatchSizeIndependence ==
    log.kind = "existing_keys"
        => LET all_keys == log.args[1]
               k        == Len(key_fields(schema))
               sz       == IF log.args[2] >= k THEN log.args[2] \div k ELSE 1
           IN  /\ log.ret.keys
                     = {key \in Range(all_keys) :
                           (\A i \in 1..k : key[i] # None) /\ HoldsKey(store, key)}
               /\ \A limit \in Budgets :
                     existing_keys(schema, store, key_fields(schema), all_keys, limit)
                         = log.ret.keys
               /\ Flatten(log.ret.chunks) = all_keys
               /\ \A n \in 1..Len(log.ret.chunks) :
                     Len(log.ret.chunks[n]) \in 1..sz

\* Three keys were probed in a chunk of two and a chunk of one; some of
\* them are stored and some are not.
C14_Witness ==
    /\ log.kind = "existing_keys"
    /\ Len(log.args[1]) = 3
    /\ Len(log.ret.chunks) = 2
    /\ Len(log.ret.chunks[1]) = 2
    /\ log.ret.keys # {}
    /\ log.ret.keys # Range(log.args[1])

\* The store one loader on its own leaves behind when it is handed the
\* groups gs for a table that holds st.
RECURSIVE LoadStore(_, _)
LoadStore(st, gs) ==
    IF gs = <<>> THEN st
    ELSE LET gf  == key_fields(schema)
             chk == GroupCheck(schema, st, gf,
                        CandidateKeys(schema.table, gf, Head(gs).key), Head(gs).rows[1])
         IN  IF chk.err THEN st
             ELSE IF chk.exists THEN LoadStore(st, Tail(gs))
             ELSE LoadStore(executemany(schema, st, Head(gs).rows), Tail(gs))

\* Both loaders are done, and each of them found every group of the batch
\* absent and issued its insert.
BothInserted ==
    \A l \in Loaders :
        /\ pc[l] = "done"
        /\ Len(log[l].trail) = Len(Buckets(schema, key_fields(schema), rows))
        /\ \A i \in 1..Len(log[l].trail) :
               log[l].trail[i].kind \in {"inserted", "conflict"}

\* C15: when two loaders of the same batch both find its groups absent and
\* both insert, the table ends with the rows a single load leaves, no row
\* of the batch more than once, both loaders return, and for every group
\* one of them saw fewer rows inserted than attempted and ran the diagnosis.
C15_RaceStoresBatchOnce ==
    BothInserted
        => /\ \A i \in 1..Len(rows) : CopiesIn(rows[i], store) <= 1
           /\ store = LoadStore(EmptyBag, Buckets(schema, key_fields(schema), rows))
           /\ \A l \in Loaders : result[l] = "True"
           /\ \A i \in 1..Len(log[1].trail) :
                  \E l \in Loaders : log[l].trail[i].kind = "conflict"

\* C16: for a record shape with no fields, deriving the CREATE and the
\* INSERT statement fails with a schema error instead of yielding a
\* statement.
C16_EmptyFieldsSchemaError ==
    (log.kind = "describe" /\ ordered_fields(log.args[1]) = <<>>)
        => (log.ret.create.raises /\ log.ret.insert.raises)

\* C18: the "existing" rows reported after a partial insert are the rows
\* of the store whose group fields equal the literal key of the group,
\* also when derived candidates were probed before the insert.
C18_ExistingUsesLiteralKey ==
    log.kind = "conflict"
        => log.existing = {r \in BagToSet(store) : KeyOfRow(r) = log.literal}

\* C19: _unique_indexes returns the columns of every unique index of the
\* table, in the order of the index list, also when the table has two or
\* more indexes.
C19_AllUniqueIndexes ==
    log.kind = "unique_indexes"
        => LET uniq == SelectSeq(log.args[1], LAMBDA ix : ix.unique)
           IN  log.ret = [i \in 1..Len(uniq) |-> uniq[i].cols]

\* The name of the first row of the group the log entry is about, or None.
IncomingName ==
    IF NameField(ordered_fields(schema)) = None THEN None
    ELSE Get(schema, log.attempted[1], NameField(ordered_fields(schema)))

\* The stored row r equals the key k on every group field but the
\* identifier field.
AgreesExceptId(r, k) ==
    \A i \in 1..Len(key_fields(schema)) :
        key_fields(schema)[i] # IdFields(key_fields(schema))[1] => KeyOfRow(r)[i] = k[i]

\* The fallback decided about the group: expansion gave further candidates,
\* the incoming name is not empty, no stored row holds a candidate key, and
\* none agrees with the literal key on all group fields but the last.
FallbackDecided ==
    /\ log.kind \in {"exists", "inserted", "conflict"}
    /\ Len(log.gkeys) > 1
    /\ Truthy(IncomingName)
    /\ \A i \in 1..Len(log.gkeys) : ~HoldsKey(log.before, log.gkeys[i])
    /\ \A r \in BagToSet(log.before) :
           DropLast(KeyOfRow(r)) # DropLast(log.literal)

\* C20: the name-based fallback judges a group existing exactly when some
\* stored row equals the group on all group fields but the identifier and
\* its name contains the first comma-delimited segment of the incoming
\* name; a stored row with another type or mult_code does not count.
C20_FallbackAllButIdentifier ==
    FallbackDecided
        => (log.kind = "exists"
               <=> \E r \in BagToSet(log.before) :
                      /\ AgreesExceptId(r, log.literal)
                      /\ Like(Get(schema, r, NameField(ordered_fields(schema))),
                              FirstSegment(IncomingName)))

\* The table of the gate check is one of restrictive airspace.
GateRestrictive == Contains(schema.table, s_restrictive)

\* The group has an _id-suffixed field.
GateHasId == \E i \in 1..Len(key_fields(schema)) : EndsWith(key_fields(schema)[i], s_id)

\* The rows have a _name-suffixed column.
GateHasName ==
    \E i \in 1..Len(ordered_fields(schema)) : EndsWith(ordered_fields(schema)[i], s_name)

\* C21 as stated: derived candidate keys are produced only for a table
\* whose name holds 'restrictive' and only when the group has both an _id
\* field and a companion _name field; in every other case the candidate
\* keys are exactly the literal key and the name-based fallback is never
\* evaluated.
C21_ExpansionGating ==
    log.kind = "gate"
        => /\ Len(log.gkeys) > 1 => GateRestrictive /\ GateHasId /\ GateHasName
           /\ ~(GateRestrictive /\ GateHasId /\ GateHasName)
                  => log.gkeys = <<log.literal>> /\ ~log.ret[1]

\* C21 amended: derived candidate keys are produced only for a table whose
\* name holds 'restrictive' and only when the group has an _id field (a
\* _name column is needed by the name-based fallback only, not by the
\* derivation); in every other case the candidate keys are exactly the
\* literal key and the name-based fallback is never evaluated.
C21_GatingByTableAndIdentifier ==
    log.kind = "gate"
        => /\ Len(log.gkeys) > 1 => GateRestrictive /\ GateHasId
           /\ ~(GateRestrictive /\ GateHasId)
                  => log.gkeys = <<log.literal>> /\ ~log.ret[1]
           /\ log.ret[1] => GateHasName

\* A group with identifier KSRENON and name RENO,NV was checked for a table
\* that is not restrictive, against a store that holds RENO NORTH with the
\* same name: only the literal key was probed, the fallback was not
\* evaluated, and the group was not judged existing.
C21_Witness ==
    /\ log.kind = "gate"
    /\ schema = GateSchema(t_controlled_primary, TRUE, TRUE)
    /\ log.attempted = <<<<<<"S">>, s_USA, KSRENON, <<"B">>, <<"1">>, RENO_NV>>>>
    /\ store = SetToBag({<<<<"S">>, s_USA, RENO_NORTH, <<"A">>, <<"1">>, RENO_NV>>})
    /\ log.gkeys = <<log.literal>>
    /\ log.ret = <<FALSE, FALSE, FALSE>>

\* C22: a load only adds rows: over every step of a load, each row of the
\* store is still there as often as before, and each row the step added
\* is a row of the record list of the loader that took the step.
C22_LoadOnlyAddsBatchRows ==
    [][/\ \A r \in BagToSet(store) : CopiesIn(r, store') >= CopiesIn(r, store)
       /\ \A r \in BagToSet(store') :
              CopiesIn(r, store') > CopiesIn(r, store)
                  => \E l \in Loaders :
                        /\ pc[l] = "insert"
                        /\ pc'[l] # "insert"
                        /\ r \in Range(rows[l])]_vars

\* A loader's insert met a stored row of the other loader with the same
\* primary key and another name: its row was ignored, and the stored row
\* is the only row of the store.
C22_Witness ==
    /\ schema = RestrictivePrimary
    /\ \E l \in Loaders :
          /\ log[l].kind = "conflict"
          /\ pc[l] = "diagnose"
          /\ log[l].before # EmptyBag
          /\ store = log[l].before
          /\ \E s \in BagToSet(store) :
                /\ s # log[l].attempted[1]
                /\ KeyOfRow(s) = log[l].literal
                /\ s \in Range(rows[3 - l])

\* The attributes of the Airport that hold the line at position i.
HoldersOf(i) ==
    {a \in {"primary", "continuation", "planning", "planning_continuation"} :
        i \in Range(groups[a])}

\* C23: while the lines of an airport partition are consumed in order,
\* each line is held by at most one of primary, continuation, planning and
\* planning_continuation, and a line held by planning_continuation comes
\* right after a line held by planning (never after a planning
\* continuation, a primary or a standard continuation line).
C23_AirportLineGrouping ==
    \A i \in 1..Len(rows) :
        /\ Cardinality(HoldersOf(i)) <= 1
        /\ i > calls => HoldersOf(i) = {}
        /\ "planning_continuation" \in HoldersOf(i)
               => i > 1 /\ HoldersOf(i - 1) = {"planning"}

\* The partition of a planning line and two lines of another application
\* was consumed: the second line is the planning continuation, the third
\* line went nowhere.
C23_Witness ==
    /\ pc = "constructed"
    /\ rows = <<[cont_rec_no |-> 2, con |-> a_other, pla |-> a_planning],
                [cont_rec_no |-> 2, con |-> a_other, pla |-> a_other],
                [cont_rec_no |-> 2, con |-> a_other, pla |-> a_other]>>
    /\ groups.planning = <<1>>
    /\ groups.planning_continuation = <<2>>
    /\ HoldersOf(3) = {}

====
